---- MODULE Spec2Model ----
(***************************************************************************)
(* file_sync (Exercise_1/file_sync.c): one-way synchronisation of the      *)
(* regular files of a source directory into a destination directory.       *)
(*                                                                         *)
(* The state is the part of the filesystem the program reads and writes    *)
(* (the two directories and their entries, and whether /usr/bin/diff can   *)
(* be executed) together with the locals of main().  The two directories   *)
(* are separate trees and nothing but the program changes them.            *)
(***************************************************************************)
EXTENDS Integers, Sequences, FiniteSets

(* ------------------------------ bounds --------------------------------- *)

\* entries the source directory holds at most
MaxFiles == 2
\* entries the destination directory holds at most before the first run
MaxDstFiles == 2
\* the time at which the program runs: the mtime a copy gets; later than Times
Now == 3

\* modification times of the files that exist before the first run
Times == {1, 2}

(* --------------------------- program constants ------------------------- *)

MAX_FILES == 100

(* ------------------------------ file names ----------------------------- *)

\* names are byte strings: "b", "B", "ab"
Names == { <<98>>, <<66>>, <<97, 98>> }
Dot == <<46>>
DotDot == <<46, 46>>

\* the bytes of a file that is in the destination and is no copy of a source file
OtherBytes == <<0>>

\* the bytes of the source file called n: every source file differs from the others
SrcBytes(n) == n

(* --------------------------- filesystem values ------------------------- *)

NoEntry == [kind |-> "none", content |-> <<>>, mtime |-> 0, readable |-> FALSE]
NoFile == [exists |-> FALSE, content |-> <<>>, mtime |-> 0]

\* what a directory entry of the source can be; for a symbolic link ("lnk") the
\* content, mtime and readable are those of the regular file it points to
SrcEntryOf(n) ==
    {[kind |-> "dir", content |-> <<>>, mtime |-> 1, readable |-> TRUE]}
    \cup {[kind |-> "lnk", content |-> SrcBytes(n), mtime |-> 2, readable |-> TRUE]}
    \cup {[kind |-> "reg", content |-> SrcBytes(n), mtime |-> t, readable |-> r] :
             t \in Times, r \in BOOLEAN}

DstFileOf(n) ==
    {[exists |-> TRUE, content |-> c, mtime |-> t] :
        c \in {SrcBytes(n), OtherBytes}, t \in Times}

SrcDirs ==
    {f \in [Names -> UNION {SrcEntryOf(n) : n \in Names} \cup {NoEntry}] :
        /\ \A n \in Names : f[n] = NoEntry \/ f[n] \in SrcEntryOf(n)
        /\ Cardinality({n \in Names : f[n] # NoEntry}) <= MaxFiles}

DstDirs ==
    {f \in [Names -> UNION {DstFileOf(n) : n \in Names} \cup {NoFile}] :
        /\ \A n \in Names : f[n] = NoFile \/ f[n] \in DstFileOf(n)
        /\ Cardinality({n \in Names : f[n] # NoFile}) <= MaxDstFiles}

EmptySrc == [n \in Names |-> NoEntry]
EmptyDst == [n \in Names |-> NoFile]

VARIABLES
    srcRoot,    \* the source directory: "ok", "missing" or "unreadable"
    src,        \* its entries, by name
    dstRoot,    \* the destination directory: "present", "absent" (mkdir can
                \* create it) or "blocked" (absent, and mkdir fails)
    dst,        \* its files, by name
    diffOK,     \* whether /usr/bin/diff can be executed
    pc,         \* where main() is
    exitCode,   \* the exit code of main(), -1 while it runs
    files,      \* files[0 .. count-1]
    shuffled,   \* whether qsort had to change the order the scan filled files[] in
    i,          \* the loop index (0-based, as in the code)
    log,        \* one record per loop iteration: what was printed and done
    run,        \* the number of this run: 1, or 2 after Rerun
    prevLog,    \* the log of the run before
    prevExit,   \* the exit code of the run before
    src0,       \* the source entries before the first run
    srcRoot0,   \* the source directory before the first run
    dst0,       \* the destination files when this run started
    dstRoot0    \* the destination directory when this run started

vars == <<srcRoot, src, dstRoot, dst, diffOK, pc, exitCode, files, shuffled, i, log,
          run, prevLog, prevExit, src0, srcRoot0, dst0, dstRoot0>>

fsSrc == <<srcRoot, src, diffOK, src0, srcRoot0>>
runVars == <<run, prevLog, prevExit, dst0, dstRoot0>>

(* ------------------------------ helpers -------------------------------- *)

\* the byte of string s at 1-based position k; the terminating NUL past its end
ByteAt(s, k) == IF k <= Len(s) THEN s[k] ELSE 0

RECURSIVE StrcmpFrom(_, _, _)
StrcmpFrom(a, b, k) ==
    IF ByteAt(a, k) # ByteAt(b, k) THEN ByteAt(a, k) - ByteAt(b, k)
    ELSE IF ByteAt(a, k) = 0 THEN 0
    ELSE StrcmpFrom(a, b, k + 1)

Strcmp(a, b) == StrcmpFrom(a, b, 1)

compare(a, b) == Strcmp(a, b)

RECURSIVE InsertSorted(_, _)
InsertSorted(s, x) ==
    IF s = <<>> THEN <<x>>
    ELSE IF compare(x, Head(s)) <= 0 THEN <<x>> \o s
    ELSE <<Head(s)>> \o InsertSorted(Tail(s), x)

RECURSIVE SortedBy(_)
SortedBy(s) ==
    IF s = <<>> THEN <<>> ELSE InsertSorted(SortedBy(Tail(s)), Head(s))

Unsorted(s) == s

qsort(s) == SortedBy(s)

\* stat(path, &st) == 0 for a path in the source directory: stat follows links
SrcStatOK(n) == n \in Names /\ src[n].kind # "none"

StatIsReg(n) == src[n].kind \in {"reg", "lnk"}

is_regular_file(n) == SrcStatOK(n) /\ StatIsReg(n)

file_exists(n) == dstRoot = "present" /\ dst[n].exists

source_is_newer(n) == src[n].mtime - dst[n].mtime > 0

\* what the child running diff -q does: "exec" the exec failed (exit(1) after
\* perror), "trouble" diff could not read a file (exit 2), "same" (exit 0),
\* "differ" (exit 1)
DiffOutcome(n) ==
    IF ~diffOK THEN "exec"
    ELSE IF ~src[n].readable THEN "trouble"
    ELSE IF src[n].content = dst[n].content THEN "same"
    ELSE "differ"

ExitStatusOf(outcome) ==
    CASE outcome = "same" -> 0
      [] outcome = "differ" -> 1
      [] outcome = "exec" -> 1
      [] OTHER -> 2

files_are_different(n) == ExitStatusOf(DiffOutcome(n))

\* whether the child running cp succeeds
CpSucceeds(n) == src[n].readable /\ dstRoot = "present"

CpWritesNothing(n) == dst[n]

CpTruncates(n) == [exists |-> TRUE, content |-> <<>>, mtime |-> Now]

\* the file cp leaves at the destination path when it succeeds
CpResult(n) == [exists |-> TRUE, content |-> src[n].content, mtime |-> Now]

CopyAndPrune(n) ==
    [m \in Names |->
        IF m = n THEN (IF CpSucceeds(n) THEN CpResult(n) ELSE dst[n])
        ELSE IF src[m].kind = "none" THEN NoFile ELSE dst[m]]

\* the destination directory after copy_file(src/n, dst/n)
copy_file(n) == IF CpSucceeds(n) THEN [dst EXCEPT ![n] = CpResult(n)] ELSE dst

\* the branch of the loop body taken for file n
Decision(n) ==
    IF ~file_exists(n) THEN "Copy-New"
    ELSE IF files_are_different(n) = 0 THEN "Skip-Identical"
    ELSE IF source_is_newer(n) THEN "Copy-Update"
    ELSE "Skip-DestinationNewer"

CopiesAlways(d) == TRUE

\* the branches that call copy_file
CallsCopy(d) == d \in {"Copy-New", "Copy-Update"}

AbortOnFailure(e) == IF e.cmp \in {"exec", "trouble"} \/ (e.copied /\ ~e.cpOk)
                     THEN "exit" ELSE "loop"

\* where the loop goes after an iteration: it has no break and no return
AfterFile(e) == "loop"

\* the injective sequences over S: the orders readdir can return S in
Orders(S) ==
    {f \in [1 .. Cardinality(S) -> S] : \A a, b \in DOMAIN f : f[a] = f[b] => a = b}

RECURSIVE Collect(_, _)
\* the scan loop over the listing `entries`, files[] so far being `acc`
Collect(entries, acc) ==
    IF entries = <<>> THEN acc
    ELSE LET name == Head(entries) IN
        IF name = Dot \/ name = DotDot THEN Collect(Tail(entries), acc)
        ELSE IF is_regular_file(name)
             THEN IF Len(acc) + 1 >= MAX_FILES THEN Append(acc, name)
                  ELSE Collect(Tail(entries), Append(acc, name))
        ELSE Collect(Tail(entries), acc)

(* ------------------------------- Init ---------------------------------- *)

Init ==
    /\ srcRoot \in {"ok", "missing", "unreadable"}
    /\ src \in (IF srcRoot = "ok" THEN SrcDirs ELSE {EmptySrc})
    /\ dstRoot \in {"present", "absent", "blocked"}
    /\ dst \in (IF dstRoot = "present" THEN DstDirs ELSE {EmptyDst})
    /\ diffOK \in BOOLEAN
    /\ pc = "start"
    /\ exitCode = -1
    /\ files = <<>>
    /\ shuffled = FALSE
    /\ i = 0
    /\ log = <<>>
    /\ run = 1
    /\ prevLog = <<>>
    /\ prevExit = -1
    /\ src0 = src
    /\ srcRoot0 = srcRoot
    /\ dst0 = dst
    /\ dstRoot0 = dstRoot

(* ------------------------------ actions -------------------------------- *)

\* main, argument validation and realpath of the source
ResolveSource ==
    /\ pc = "start"
    /\ \E argc \in {2, 3} :
          IF argc # 3 \/ srcRoot = "missing"
          THEN pc' = "exit" /\ exitCode' = 1
          ELSE pc' = "resolve_dst" /\ UNCHANGED exitCode
    /\ UNCHANGED <<fsSrc, dstRoot, dst, files, shuffled, i, log, runVars>>

\* mkdir(tmp, 0755) of the last component, its result ignored
mkdir_p == IF dstRoot = "absent" THEN "present" ELSE dstRoot

\* main, realpath of the destination, mkdir_p when it does not resolve
ResolveDestination ==
    /\ pc = "resolve_dst"
    /\ dstRoot' = (IF dstRoot = "present" THEN dstRoot ELSE mkdir_p)
    /\ pc' = "getcwd"
    /\ UNCHANGED <<fsSrc, dst, exitCode, files, shuffled, i, log, runVars>>

\* main, getcwd and opendir of the source
OpenSource ==
    /\ pc = "getcwd"
    /\ \E cwdOK \in BOOLEAN :
          IF ~cwdOK \/ srcRoot = "unreadable"
          THEN pc' = "exit" /\ exitCode' = 1
          ELSE pc' = "scan" /\ UNCHANGED exitCode
    /\ UNCHANGED <<fsSrc, dstRoot, dst, files, shuffled, i, log, runVars>>

\* main, the readdir loop, closedir and qsort
Scan ==
    /\ pc = "scan"
    /\ \E order \in Orders({n \in Names : src[n].kind # "none"}) :
          LET found == Collect(<<Dot, DotDot>> \o order, <<>>) IN
          /\ files' = qsort(found)
          /\ shuffled' = (found # SortedBy(found))
    /\ i' = 0
    /\ pc' = "loop"
    /\ UNCHANGED <<fsSrc, dstRoot, dst, exitCode, log, runVars>>

\* main, one iteration of the loop over files[]
ProcessFile ==
    /\ pc = "loop"
    /\ i < Len(files)
    /\ LET n == files[i + 1]
           d == Decision(n)
           e == [name |-> n,
                 decision |-> d,
                 cmp |-> IF file_exists(n) THEN DiffOutcome(n) ELSE "none",
                 copied |-> CallsCopy(d),
                 cpOk |-> CallsCopy(d) /\ CpSucceeds(n)]
       IN /\ dst' = (IF CallsCopy(d) THEN copy_file(n) ELSE dst)
          /\ log' = Append(log, e)
          /\ pc' = AfterFile(e)
    /\ i' = i + 1
    /\ UNCHANGED <<fsSrc, dstRoot, exitCode, files, shuffled, runVars>>

\* main, the end of the loop: "Synchronization complete.", return 0
Finish ==
    /\ pc = "loop"
    /\ i >= Len(files)
    /\ pc' = "exit"
    /\ exitCode' = 0
    /\ UNCHANGED <<fsSrc, dstRoot, dst, files, shuffled, i, log, runVars>>

\* the program is started again on the same two directories
Rerun ==
    /\ pc = "exit"
    /\ run = 1
    /\ run' = 2
    /\ prevLog' = log
    /\ prevExit' = exitCode
    /\ dst0' = dst
    /\ dstRoot0' = dstRoot
    /\ pc' = "start"
    /\ exitCode' = -1
    /\ files' = <<>>
    /\ shuffled' = FALSE
    /\ i' = 0
    /\ log' = <<>>
    /\ UNCHANGED <<fsSrc, dstRoot, dst>>

Next ==
    \/ ResolveSource
    \/ ResolveDestination
    \/ OpenSource
    \/ Scan
    \/ ProcessFile
    \/ Finish

Spec == Init /\ [][Next]_vars

\* the loop runs to its end: an iteration waits for nothing but its own
\* children (diff, cp), which end
FairSpec == Spec /\ WF_vars(ProcessFile) /\ WF_vars(Finish)

NextRerun == Next \/ Rerun

SpecRerun == Init /\ [][NextRerun]_vars

(* ------------------------ the claims' vocabulary ----------------------- *)

Copies == {"Copy-New", "Copy-Update"}
Skips == {"Skip-Identical", "Skip-DestinationNewer"}

LogIdx == 1 .. Len(log)

\* the candidate set: the names the scan collected
Candidates == {files[k] : k \in 1 .. Len(files)}

\* a < b in byte-wise lexicographic order, stated without strcmp
LexLess(a, b) ==
    \E k \in 1 .. Len(b) :
        /\ \A j \in 1 .. (k - 1) : j <= Len(a) /\ a[j] = b[j]
        /\ (k > Len(a) \/ a[k] < b[k])

\* the decision the four-way table gives for the file called n, from the
\* source and the destination as they were when the run started
TableDecision(n) ==
    IF ~(dstRoot = "present" /\ dst0[n].exists) THEN "Copy-New"
    ELSE IF src0[n].content = dst0[n].content THEN "Skip-Identical"
    ELSE IF src0[n].mtime > dst0[n].mtime THEN "Copy-Update"
    ELSE "Skip-DestinationNewer"

CmpFailed(e) == e.cmp \in {"exec", "trouble"}

\* lstat(path, &st) == 0 && S_ISREG(st.st_mode): the entry itself is a regular file
LstatIsReg(n) == src[n].kind = "reg"

\* nothing in the environment of the run can fail, and the source holds no
\* symbolic link
FaultFree ==
    /\ diffOK
    /\ srcRoot = "ok"
    /\ dstRoot0 # "blocked"
    /\ \A n \in Names : src[n].kind # "lnk"
    /\ \A n \in Names : src[n].kind = "reg" => src[n].readable

(* ------------------------------- C1 ------------------------------------ *)

\* C1: every processed candidate's decision is the one of the four-way table
\* (Copy-New iff the destination path does not exist, else Skip-Identical iff
\* the contents are equal, else Copy-Update iff the source is strictly newer,
\* else Skip-DestinationNewer), and a transfer runs iff the decision is a copy.
C1_DecisionIsTable ==
    \A k \in LogIdx :
        /\ log[k].decision = TableDecision(log[k].name)
        /\ log[k].copied <=> log[k].decision \in Copies

(* ------------------------------- C2 ------------------------------------ *)

C4_SkipLeavesDestination ==
    \A k \in LogIdx :
        log[k].decision \in Skips =>
            /\ ~log[k].copied
            /\ dst[log[k].name] = dst0[log[k].name]

\* a finished run with both kinds of skip, one of them on equal timestamps
C4_Witness ==
    /\ pc = "exit"
    /\ \E j, k \in LogIdx :
          /\ log[j].decision = "Skip-Identical"
          /\ log[k].decision = "Skip-DestinationNewer"
          /\ src[log[k].name].mtime = dst0[log[k].name].mtime

(* ------------------------------- C5 ------------------------------------ *)

\* C5: a comparison that failed is not decided Skip-Identical and is not
\* handled as "files differ" (Copy-Update, Skip-DestinationNewer), and no copy
\* that failed is reported "Copied:".
C5_FailuresSurfaced ==
    \A k \in LogIdx :
        /\ CmpFailed(log[k]) =>
              log[k].decision \notin
                  {"Skip-Identical", "Copy-Update", "Skip-DestinationNewer"}
        /\ ~(log[k].copied /\ ~log[k].cpOk)

(* ------------------------------- C6 ------------------------------------ *)

\* C6: once the candidate set is built the run goes through it in one pass,
\* one decision per candidate, whatever fails, and ends with exit code 0.
C6_EveryCandidateDecided ==
    /\ [](pc \in {"loop", "exit"} =>
             /\ Len(log) <= Len(files)
             /\ Len(log) = i
             /\ \A k \in LogIdx : log[k].name = files[k])
    /\ [](pc = "loop" =>
             <>(pc = "exit" /\ exitCode = 0 /\ Len(log) = Len(files)))

\* a finished run in which a comparison and a copy failed before the last file
C6_Witness ==
    /\ pc = "exit"
    /\ exitCode = 0
    /\ Len(log) = Len(files)
    /\ \E j, k \in LogIdx :
          /\ j < k
          /\ CmpFailed(log[j])
          /\ log[j].copied
          /\ ~log[j].cpOk

(* ------------------------------- C7 ------------------------------------ *)

\* C7: the candidates are processed in ascending byte-wise order of their
\* names, whatever order readdir returned them in, and all of them are.
C7_ProcessedInByteOrder ==
    /\ \A j, k \in LogIdx : j < k => LexLess(log[j].name, log[k].name)
    /\ pc = "exit" /\ exitCode = 0 =>
          {log[k].name : k \in LogIdx} = {n \in Names : src0[n].kind \in {"reg", "lnk"}}

\* a finished run whose listing came in another order than the sorted one
C7_Witness ==
    /\ pc = "exit"
    /\ exitCode = 0
    /\ Len(log) >= 2
    /\ shuffled

(* ------------------------------- C8 ------------------------------------ *)

\* C8: when the destination directory does not resolve and cannot be created
\* the run never reaches the per-file loop and its exit code is 1.
C8_ExitOneWhenUncreatable ==
    dstRoot0 = "blocked" =>
        /\ pc # "loop"
        /\ pc = "exit" => exitCode = 1

(* ------------------------------- C9 ------------------------------------ *)

\* C9: every candidate is an entry of the source directory that is itself a
\* regular file; a symbolic link is never a candidate.
C9_CandidatesAreRegular ==
    \A n \in Candidates : LstatIsReg(n)

(* ------------------------------- C10 ----------------------------------- *)

====
